---- MODULE Spec2Model ----
(***************************************************************************)
(* fileio (rust-b): a multi-node object storage gateway.  Every node keeps *)
(* buckets and objects on its own disk; a shared Redis holds the location  *)
(* directory ("{bucket}:{key}" -> JSON {id, host, port}) and the node      *)
(* registry (the set "nodes").  Handlers run as independently scheduled    *)
(* tasks, so every filesystem call and every Redis call of a handler is a  *)
(* step of its own that other requests may interleave with.                *)
(*                                                                         *)
(* Strings the code builds with format! are sequences of tokens (one token *)
(* per character, or one token for a fixed literal), so that concatenation *)
(* is concatenation.                                                       *)
(***************************************************************************)
EXTENDS Integers, Sequences, FiniteSets, Bags, TLC

\* ------------------------------------------------------------------ bounds

\* Requests the clients send in one run.
MaxRequests == 3

\* chrono::Utc::now().timestamp_millis() and rand_u32() as seen by the runs
\* explored: every upload draws its timestamp and its random value here.
Times == {1}
Rands == {0, 1}

\* ---------------------------------------------------------- configuration

Nodes == {"A", "B"}

\* port_from_env(): the PORT variable, 3001 when unset.
DefaultPort == 3001

\* Each node's environment: PUBLIC_HOST, PORT and the process id.
PublicHost(n) == IF n = "A" THEN <<"host-a">> ELSE <<"host-b">>
port_from_env(n) == IF n = "A" THEN DefaultPort ELSE 3002
ProcessId(n) == IF n = "A" THEN 7 ELSE 8

\* What clients send.
BucketNames == {<<"b">>}
\* The names sent to createBucket: the bucket names and names the check of
\* create_bucket refuses (empty, upper case, leading and trailing hyphen).
CreateNames == BucketNames \cup {<<>>, <<"B">>, <<"-", "b">>, <<"b", "-">>}
OrigNames == {<<"f">>}
Payloads == {<<>>, <<1>>}

\* ---------------------------------------------------------------- strings

Digit(d) == CASE d = 0 -> "0" [] d = 1 -> "1" [] d = 2 -> "2" [] d = 3 -> "3"
              [] d = 4 -> "4" [] d = 5 -> "5" [] d = 6 -> "6" [] d = 7 -> "7"
              [] d = 8 -> "8" [] d = 9 -> "9"

\* format!("{}", n) of an unsigned integer: its decimal digits.
RECURSIVE Dec(_)
Dec(n) == IF n < 10 THEN <<Digit(n)>> ELSE Dec(n \div 10) \o <<Digit(n % 10)>>

\* format!("{}-{}-{}", timestamp_millis, rand_u32, original_name)
UniqueName(ts, r, orig) == Dec(ts) \o <<"-">> \o Dec(r) \o <<"-">> \o orig

\* format!("{}:{}", bucket, filename): the directory key.
DirKey(bucket, filename) == bucket \o <<":">> \o filename

\* format!("http://{}:{}/api/buckets/{}/files/{}", host, port, bucket, filename)
RedirectTarget(host, port, bucket, filename) ==
    <<"http://">> \o host \o <<":">> \o Dec(port) \o <<"/api/buckets/">>
        \o bucket \o <<"/files/">> \o filename

\* json!({"id": format!("server-{}", pid), "host": public_host, "port": port})
NodeJson(id, host, port) == [id |-> id, host |-> host, port |-> port]
ServerId(n) == <<"server-">> \o Dec(ProcessId(n))
\* Mutant: the descriptor advertises the defaults, not this node's settings.
SelfDescriptorDefaults(n) == NodeJson(ServerId(n), <<"localhost">>, DefaultPort)
SelfDescriptor(n) == NodeJson(ServerId(n), PublicHost(n), port_from_env(n))

\* Value::to_string: the text stored in Redis; serde_json::from_str reads it
\* back, and fails on a text that is no JSON.
ToJsonText(v) == [json |-> v]
IsJsonText(s) == "json" \in DOMAIN s
FromJsonText(s) == s.json

\* The object keys an upload can generate: what clients ask for.
FileNames == {UniqueName(ts, r, o) : ts \in Times, r \in Rands, o \in OrigNames}

\* ------------------------------------------------------------------ state

VARIABLES
    dirs,       \* dirs[n]: the bucket directories under node n's root_dir
    files,      \* files[n]: <<bucket, filename>> -> bytes, the files on n's disk
    directory,  \* Redis strings: directory key -> stored text
    registry,   \* Redis set "nodes": stored texts
    redisUp,    \* whether Redis answers
    tasks,      \* the requests being handled: a bag of handler tasks
    done,       \* the request answered last, with its response
    received    \* how many requests have arrived

vars == <<dirs, files, directory, registry, redisUp, tasks, done, received>>

NoText == <<>>

\* A request as it arrives at its handler.
NewRequest(n, op, bucket, filename) ==
    [node |-> n, op |-> op, bucket |-> bucket, filename |-> filename,
     orig |-> NoText, payload |-> <<>>, hasFile |-> FALSE,
     pc |-> "start", status |-> 0, name |-> NoText, target |-> NoText,
     body |-> <<>>, location |-> <<>>, listing |-> {}, redis |-> "",
     local |-> FALSE, lookups |-> 0, redisCall |-> "none", found |-> FALSE]

\* The handler tasks at a given step of a given handler.
At(op, pc) == {t \in BagToSet(tasks) : t.op = op /\ t.pc = pc}

\* Finite maps (directory key -> text, path -> bytes).
EmptyMap == [x \in {} |-> <<>>]
Put(f, k, v) == [x \in DOMAIN f \cup {k} |-> IF x = k THEN v ELSE f[x]]
Remove(f, k) == [x \in DOMAIN f \ {k} |-> f[x]]

Init ==
    /\ dirs = [n \in Nodes |-> {}]
    /\ files = [n \in Nodes |-> EmptyMap]
    /\ directory = EmptyMap
    /\ registry = {}
    /\ redisUp = TRUE
    /\ tasks = EmptyBag
    /\ done = NewRequest("A", "none", NoText, NoText)
    /\ received = 0

\* A client sends a request while the run's budget lasts.
CanReceive == received < MaxRequests

\* A handler task goes on as r, or ends with the response r.
Proceed(rest, r) ==
    IF r.pc = "done" THEN tasks' = rest /\ done' = r
                     ELSE tasks' = rest (+) SetToBag({r}) /\ done' = done

Receive(r) == Proceed(tasks, r) /\ received' = received + 1
Continue(t, r) == Proceed(tasks (-) SetToBag({t}), r) /\ received' = received
Respond(r, status) == [r EXCEPT !.pc = "done", !.status = status]

\* file_path.exists() / fs::metadata(file_path).is_ok()
FileExists(n, bucket, filename) == <<bucket, filename>> \in DOMAIN files[n]
\* bucket_dir.exists()
BucketExists(n, bucket) == bucket \in dirs[n]

\* ------------------------------------------------------------------ Redis
\* Every call opens a connection of its own; with Redis down it returns Err,
\* and every caller drops the Err (let _ = ..., if let Ok(..) = ...).

\* How a handler's Redis call ends: Ok, or Err with Redis down.
RedisResult == IF redisUp THEN "ok" ELSE "err"

\* Mutant: SET key value NX, a key that is there keeps its value.
set_key_if_absent(key, value) ==
    IF redisUp /\ key \notin DOMAIN directory
    THEN directory' = Put(directory, key, value)
    ELSE directory' = directory

\* set_key: SET key value.
set_key(key, value) ==
    IF redisUp THEN directory' = Put(directory, key, value)
               ELSE directory' = directory

\* Mutant: the forget never reaches Redis.
del_key_skipped(key) == directory' = directory

\* del_key: DEL key.
del_key(key) ==
    IF redisUp THEN directory' = Remove(directory, key)
               ELSE directory' = directory

\* get_key(..) matched against Ok(Some(loc)): the stored text, in a sequence
\* of at most one element (empty for Ok(None) and for Err).
get_key(key) ==
    IF redisUp /\ key \in DOMAIN directory THEN <<directory[key]>> ELSE <<>>

\* Mutant: RPUSH in place of SADD, a member already there is stored again.
register_node_appending(text) ==
    IF redisUp
    THEN registry' = registry \cup {IF text \in registry
                                    THEN [json |-> text.json, copy |-> 2]
                                    ELSE text}
    ELSE registry' = registry

\* Mutant: one member per id, a member with the id of the new one is dropped.
register_node_by_id(text) ==
    IF redisUp
    THEN registry' = {m \in registry : m.json.id # text.json.id} \cup {text}
    ELSE registry' = registry

\* register_node: SADD nodes node_json.
register_node(text) ==
    IF redisUp THEN registry' = registry \cup {text}
               ELSE registry' = registry

\* Mutant: the members are served although Redis does not answer.
list_nodes_cached == TRUE

\* list_nodes: SMEMBERS nodes, matched against Ok(members).
list_nodes_ok == redisUp

\* ------------------------------------------------------------ upload_file

\* POST /api/buckets/:bucket/upload arrives: fs::create_dir_all(bucket_dir).
upload_create_dir(n, bucket, hasFile, orig, payload) ==
    /\ CanReceive
    /\ dirs' = [dirs EXCEPT ![n] = @ \cup {bucket}]
    /\ Receive([NewRequest(n, "upload", bucket, NoText) EXCEPT
                    !.hasFile = hasFile, !.orig = orig, !.payload = payload,
                    !.pc = "write"])
    /\ UNCHANGED <<files, directory, registry, redisUp>>

\* Mutant: the result of tokio::fs::write is dropped.
upload_write_unchecked(t, ts, r) ==
    /\ t \in At("upload", "write")
    /\ LET q == t
           unique == UniqueName(ts, r, q.orig)
       IN  IF ~q.hasFile
           THEN /\ Continue(t, Respond(q, 400))
                /\ UNCHANGED files
           ELSE /\ files' = IF BucketExists(q.node, q.bucket)
                            THEN [files EXCEPT ![q.node] =
                                      Put(@, <<q.bucket, unique>>, q.payload)]
                            ELSE files
                /\ Continue(t, [q EXCEPT !.name = unique, !.pc = "record"])
    /\ UNCHANGED <<dirs, directory, registry, redisUp>>

\* The multipart loop up to tokio::fs::write(save_path, bytes): no field named
\* "file" ends the loop with 400; the write fails when bucket_dir is gone.
upload_write(t, ts, r) ==
    /\ t \in At("upload", "write")
    /\ LET q == t
           unique == UniqueName(ts, r, q.orig)
       IN  IF ~q.hasFile
           THEN /\ Continue(t, Respond(q, 400))
                /\ UNCHANGED files
           ELSE IF ~BucketExists(q.node, q.bucket)
           THEN /\ Continue(t, Respond(q, 500))
                /\ UNCHANGED files
           ELSE /\ files' = [files EXCEPT ![q.node] =
                                 Put(@, <<q.bucket, unique>>, q.payload)]
                /\ Continue(t, [q EXCEPT !.name = unique, !.pc = "record"])
    /\ UNCHANGED <<dirs, directory, registry, redisUp>>

\* The client disconnects while the handler awaits the body, the write or
\* set_key: the task is dropped there and nothing is answered.
upload_abort(t) ==
    /\ t.op = "upload" /\ t.pc \in {"write", "record"}
    /\ t \in BagToSet(tasks)
    /\ tasks' = tasks (-) SetToBag({t})
    /\ done' = [NewRequest(t.node, "upload", t.bucket, NoText) EXCEPT
                    !.name = t.name, !.pc = "aborted"]
    /\ UNCHANGED <<dirs, files, directory, registry, redisUp, received>>

\* Mutant: a failed set_key fails the upload.
upload_record_strict(t) ==
    /\ t \in At("upload", "record")
    /\ set_key(DirKey(t.bucket, t.name), ToJsonText(SelfDescriptor(t.node)))
    /\ Continue(t, Respond([t EXCEPT !.redisCall = RedisResult],
                           IF redisUp THEN 200 ELSE 500))
    /\ UNCHANGED <<dirs, files, registry, redisUp>>

\* set_key(url, "{bucket}:{unique}", {id, host, port}), its result dropped,
\* then the 200 response naming the generated key.
upload_record(t) ==
    /\ t \in At("upload", "record")
    /\ LET q == t
       IN  /\ set_key(DirKey(q.bucket, q.name), ToJsonText(SelfDescriptor(q.node)))
           /\ Continue(t, Respond([q EXCEPT !.redisCall = RedisResult], 200))
    /\ UNCHANGED <<dirs, files, registry, redisUp>>

\* ---------------------------------------------------------- download_file

\* Mutant: the directory is asked before the disk.
download_check_directory_first(n, bucket, filename) ==
    /\ CanReceive
    /\ Receive([NewRequest(n, "download", bucket, filename) EXCEPT
                    !.local = FileExists(n, bucket, filename),
                    !.pc = "lookup"])
    /\ UNCHANGED <<dirs, files, directory, registry, redisUp>>

\* GET /api/buckets/:bucket/files/:filename arrives: file_path.exists().
download_check(n, bucket, filename) ==
    /\ CanReceive
    /\ Receive([NewRequest(n, "download", bucket, filename) EXCEPT
                    !.local = FileExists(n, bucket, filename),
                    !.pc = IF FileExists(n, bucket, filename)
                           THEN "open" ELSE "lookup"])
    /\ UNCHANGED <<dirs, files, directory, registry, redisUp>>

\* tokio::fs::File::open(file_path): the bytes, or 500 when the open fails.
download_open(t) ==
    /\ t \in At("download", "open")
    /\ LET q == t
       IN  IF FileExists(q.node, q.bucket, q.filename)
           THEN Continue(t, Respond([q EXCEPT !.body =
                                files[q.node][<<q.bucket, q.filename>>]], 200))
           ELSE Continue(t, Respond(q, 500))
    /\ UNCHANGED <<dirs, files, directory, registry, redisUp>>

\* Mutant: the port is read as a string, which a number is not.
HasOwnerPortAsText(text) ==
    /\ IsJsonText(text)
    /\ "host" \in DOMAIN FromJsonText(text)
    /\ "port" \in DOMAIN FromJsonText(text)
    /\ FromJsonText(text).port \notin Nat

\* The redirect a stored text yields: it must parse and hold a string "host"
\* and an unsigned "port".
HasOwner(text) ==
    /\ IsJsonText(text)
    /\ "host" \in DOMAIN FromJsonText(text)
    /\ "port" \in DOMAIN FromJsonText(text)
    /\ FromJsonText(text).port \in Nat

\* Mutant: a Redis error is reported as a server error.
download_lookup_surfacing(t) ==
    /\ t \in At("download", "lookup")
    /\ LET found == get_key(DirKey(t.bucket, t.filename))
           q == [t EXCEPT !.lookups = @ + 1, !.redisCall = RedisResult,
                          !.found = (found # <<>>)]
       IN  IF ~redisUp THEN Continue(t, Respond(q, 500))
           ELSE IF found # <<>> /\ HasOwner(found[1])
           THEN Continue(t, Respond([q EXCEPT !.target =
                    RedirectTarget(FromJsonText(found[1]).host,
                                   FromJsonText(found[1]).port,
                                   q.bucket, q.filename)], 303))
           ELSE Continue(t, Respond(q, 404))
    /\ UNCHANGED <<dirs, files, directory, registry, redisUp>>

\* Mutant: a pointer naming this node itself is treated as a miss.
download_lookup_self_guard(t) ==
    /\ t \in At("download", "lookup")
    /\ LET found == get_key(DirKey(t.bucket, t.filename))
           q == [t EXCEPT !.lookups = @ + 1, !.redisCall = RedisResult,
                          !.found = (found # <<>>)]
       IN  IF found # <<>> /\ HasOwner(found[1])
              /\ FromJsonText(found[1]).host # PublicHost(t.node)
           THEN Continue(t, Respond([q EXCEPT !.target =
                    RedirectTarget(FromJsonText(found[1]).host,
                                   FromJsonText(found[1]).port,
                                   q.bucket, q.filename)], 303))
           ELSE Continue(t, Respond(q, 404))
    /\ UNCHANGED <<dirs, files, directory, registry, redisUp>>

\* The local miss: get_key, then Redirect::to(target) or 404.
download_lookup(t) ==
    /\ t \in At("download", "lookup")
    /\ LET found == get_key(DirKey(t.bucket, t.filename))
           q == [t EXCEPT !.lookups = @ + 1, !.redisCall = RedisResult,
                                !.found = (found # <<>>)]
       IN  IF found # <<>> /\ HasOwner(found[1])
           THEN Continue(t, Respond([q EXCEPT !.target =
                    RedirectTarget(FromJsonText(found[1]).host,
                                   FromJsonText(found[1]).port,
                                   q.bucket, q.filename)], 303))
           ELSE Continue(t, Respond(q, 404))
    /\ UNCHANGED <<dirs, files, directory, registry, redisUp>>

\* ------------------------------------------------------------ delete_file

\* DELETE /api/buckets/:bucket/files/:filename arrives: file_path.exists().
delete_check(n, bucket, filename) ==
    /\ CanReceive
    /\ Receive(IF FileExists(n, bucket, filename)
               THEN [NewRequest(n, "delete", bucket, filename) EXCEPT
                        !.local = TRUE, !.pc = "remove"]
               ELSE Respond(NewRequest(n, "delete", bucket, filename), 404))
    /\ UNCHANGED <<dirs, files, directory, registry, redisUp>>

\* fs::remove_file(file_path): Err (500) when the file is gone by now.
delete_remove(t) ==
    /\ t \in At("delete", "remove")
    /\ LET q == t
       IN  IF FileExists(q.node, q.bucket, q.filename)
           THEN /\ files' = [files EXCEPT ![q.node] =
                                 Remove(@, <<q.bucket, q.filename>>)]
                /\ Continue(t, [q EXCEPT !.pc = "forget"])
           ELSE /\ Continue(t, Respond(q, 500))
                /\ UNCHANGED files
    /\ UNCHANGED <<dirs, directory, registry, redisUp>>

\* del_key(url, "{bucket}:{filename}"), its result dropped, then the 200.
delete_forget(t) ==
    /\ t \in At("delete", "forget")
    /\ LET q == t
       IN  /\ del_key(DirKey(q.bucket, q.filename))
           /\ Continue(t, Respond([q EXCEPT !.redisCall = RedisResult], 200))
    /\ UNCHANGED <<dirs, files, registry, redisUp>>

\* -------------------------------------------------------------- file_info

\* GET /api/buckets/:bucket/files/:filename/info arrives: fs::metadata(file_path);
\* its Err arm is the 404, whatever the directory holds.
info_stat(n, bucket, filename) ==
    /\ CanReceive
    /\ Receive(IF FileExists(n, bucket, filename)
               THEN [NewRequest(n, "info", bucket, filename) EXCEPT
                        !.local = TRUE, !.pc = "locate"]
               ELSE Respond(NewRequest(n, "info", bucket, filename), 404))
    /\ UNCHANGED <<dirs, files, directory, registry, redisUp>>

\* The Ok arm: get_key adds "location" (the parsed text, or null) to the 200.
info_locate(t) ==
    /\ t \in At("info", "locate")
    /\ LET found == get_key(DirKey(t.bucket, t.filename))
           q == [t EXCEPT !.lookups = @ + 1, !.redisCall = RedisResult,
                                !.found = (found # <<>>)]
       IN  Continue(t, Respond([q EXCEPT !.location =
                IF found = <<>> THEN <<>>
                ELSE IF IsJsonText(found[1]) THEN <<FromJsonText(found[1])>>
                ELSE <<"null">>], 200))
    /\ UNCHANGED <<dirs, files, directory, registry, redisUp>>

\* ---------------------------------------------------------- delete_bucket

\* Mutant: the removal is tried whether the bucket is there or not.
delete_bucket_unchecked(n, bucket) ==
    /\ CanReceive
    /\ Receive([NewRequest(n, "delete_bucket", bucket, NoText) EXCEPT !.pc = "remove"])
    /\ UNCHANGED <<dirs, files, directory, registry, redisUp>>

\* DELETE /api/buckets/:bucket arrives: bucket_dir.exists().
delete_bucket_check(n, bucket) ==
    /\ CanReceive
    /\ Receive(IF BucketExists(n, bucket)
               THEN [NewRequest(n, "delete_bucket", bucket, NoText) EXCEPT !.pc = "remove"]
               ELSE Respond(NewRequest(n, "delete_bucket", bucket, NoText), 404))
    /\ UNCHANGED <<dirs, files, directory, registry, redisUp>>

\* fs::remove_dir_all(bucket_dir): the directory and every file in it; no
\* Redis call follows.
delete_bucket_remove(t) ==
    /\ t \in At("delete_bucket", "remove")
    /\ LET q == t
       IN  IF BucketExists(q.node, q.bucket)
           THEN /\ dirs' = [dirs EXCEPT ![q.node] = @ \ {q.bucket}]
                /\ files' = [files EXCEPT ![q.node] =
                       [x \in {y \in DOMAIN @ : y[1] # q.bucket} |-> @[x]]]
                /\ Continue(t, Respond(q, 200))
           ELSE /\ Continue(t, Respond(q, 500))
                /\ UNCHANGED <<dirs, files>>
    /\ UNCHANGED <<directory, registry, redisUp>>

\* ---------------------------------------------------------- create_bucket

LowerCase == {"a", "b", "c", "d", "e", "f", "g", "h", "i", "j", "k", "l", "m",
              "n", "o", "p", "q", "r", "s", "t", "u", "v", "w", "x", "y", "z"}
Digits == {"0", "1", "2", "3", "4", "5", "6", "7", "8", "9"}

\* c.is_ascii_lowercase() || c.is_ascii_digit() || c == '-'
NameChars == LowerCase \cup Digits \cup {"-"}

\* Mutant: a trailing hyphen is accepted.
ValidBucketNameNoEnd(name) ==
    /\ \A k \in 1..Len(name) : name[k] \in NameChars
    /\ ~(Len(name) > 0 /\ name[1] = "-")

\* name.chars().all(lowercase || digit || '-') && !starts_with('-') && !ends_with('-')
ValidBucketName(name) ==
    /\ \A k \in 1..Len(name) : name[k] \in NameChars
    /\ ~(Len(name) > 0 /\ name[1] = "-")
    /\ ~(Len(name) > 0 /\ name[Len(name)] = "-")

\* POST /api/buckets {name} arrives: the name checks, then bucket_dir.exists().
create_bucket_check(n, name) ==
    /\ CanReceive
    /\ Receive(IF name = <<>> THEN Respond(NewRequest(n, "create_bucket", name, NoText), 400)
               ELSE IF ~ValidBucketName(name)
               THEN Respond(NewRequest(n, "create_bucket", name, NoText), 400)
               ELSE IF BucketExists(n, name)
               THEN Respond(NewRequest(n, "create_bucket", name, NoText), 409)
               ELSE [NewRequest(n, "create_bucket", name, NoText) EXCEPT !.pc = "mkdir"])
    /\ UNCHANGED <<dirs, files, directory, registry, redisUp>>

\* fs::create_dir_all(bucket_dir): Ok also when the directory exists by now.
create_bucket_mkdir(t) ==
    /\ t \in At("create_bucket", "mkdir")
    /\ dirs' = [dirs EXCEPT ![t.node] = @ \cup {t.bucket}]
    /\ Continue(t, Respond(t, 200))
    /\ UNCHANGED <<files, directory, registry, redisUp>>

\* --------------------------------------------- list_buckets, list_files

\* GET /api/buckets: the directories under root_dir.
list_buckets(n) ==
    /\ CanReceive
    /\ Receive(Respond([NewRequest(n, "list_buckets", NoText, NoText) EXCEPT
                           !.listing = dirs[n]], 200))
    /\ UNCHANGED <<dirs, files, directory, registry, redisUp>>

\* GET /api/buckets/:bucket/files: 404 without the directory, else its files.
list_files(n, bucket) ==
    /\ CanReceive
    /\ Receive(IF ~BucketExists(n, bucket)
               THEN Respond(NewRequest(n, "list_files", bucket, NoText), 404)
               ELSE Respond([NewRequest(n, "list_files", bucket, NoText) EXCEPT
                        !.listing = {x[2] : x \in {y \in DOMAIN files[n] : y[1] = bucket}}],
                        200))
    /\ UNCHANGED <<dirs, files, directory, registry, redisUp>>

\* ------------------------------------------------------------------ nodes

\* The optional JSON body of POST /api/nodes/register: each of id, host and
\* port is given (a one-element sequence) or not (the empty sequence).
NoPayload == [id |-> <<>>, host |-> <<>>, port |-> <<>>]
RegisterPayloads ==
    {NoPayload, [id |-> <<<<"n1">>>>, host |-> <<<<"host-c">>>>, port |-> <<>>],
     [id |-> <<<<"n2">>>>, host |-> <<<<"host-d">>>>, port |-> <<9000>>]}

OrElse(opt, default) == IF opt = <<>> THEN default ELSE opt[1]

\* json!({"id": id, "host": host, "port": port}).to_string(), the missing
\* fields defaulting to this node's own.
NodeText(n, payload) ==
    ToJsonText(NodeJson(OrElse(payload.id, ServerId(n)),
                        OrElse(payload.host, PublicHost(n)),
                        OrElse(payload.port, port_from_env(n))))

\* register_node_endpoint: register_node's result is dropped. found: SADD
\* added nothing, the text being a member already.
register_node_endpoint(n, payload) ==
    /\ CanReceive
    /\ register_node(NodeText(n, payload))
    /\ Receive(Respond([NewRequest(n, "register", NoText, NoText) EXCEPT
                           !.redisCall = RedisResult,
                           !.found = (redisUp /\ NodeText(n, payload) \in registry)],
                       200))
    /\ UNCHANGED <<dirs, files, directory, redisUp>>

\* Mutant: one member that does not parse fails the whole listing.
ListingAllOrNothing(members) ==
    IF \A t \in members : IsJsonText(t)
    THEN {[node |-> v,
           copies |-> Cardinality({t \in members : FromJsonText(t) = v})] :
             v \in {FromJsonText(t) : t \in members}}
    ELSE {}

\* members.into_iter().filter_map(|s| serde_json::from_str(&s).ok()): the
\* Vec up to its order, each value with the number of members that parse
\* to it.
Listing(members) ==
    LET parsed == {t \in members : IsJsonText(t)}
    IN  {[node |-> v,
          copies |-> Cardinality({t \in parsed : FromJsonText(t) = v})] :
            v \in {FromJsonText(t) : t \in parsed}}

\* list_nodes_endpoint: the members that parse; no member at all on Err.
list_nodes_endpoint(n) ==
    /\ CanReceive
    /\ Receive(Respond([NewRequest(n, "list_nodes", NoText, NoText) EXCEPT
                  !.redisCall = RedisResult,
                  !.found = (list_nodes_ok /\ registry # {}),
                  !.listing = IF list_nodes_ok THEN Listing(registry) ELSE {}],
               200))
    /\ UNCHANGED <<dirs, files, directory, registry, redisUp>>

\* ----------------------------------------------------------------- health

\* GET /health
health(n) ==
    /\ CanReceive
    /\ Receive(Respond(NewRequest(n, "health", NoText, NoText), 200))
    /\ UNCHANGED <<dirs, files, directory, registry, redisUp>>

\* redis_ping: Ok(true) on PONG, Err with Redis down.
redis_ping == IF redisUp THEN "pong" ELSE "err"

\* GET /health/status: {"status":"ok","redis":{connected | error}}
health_status(n) ==
    /\ CanReceive
    /\ Receive(Respond([NewRequest(n, "health_status", NoText, NoText) EXCEPT
                  !.redisCall = RedisResult,
                  !.redis = IF redis_ping = "pong" THEN "connected:true"
                            ELSE "error"], 200))
    /\ UNCHANGED <<dirs, files, directory, registry, redisUp>>

\* ------------------------------------------------------------ environment

\* Redis, or the network to it, goes down and comes back.
RedisFails ==
    /\ redisUp /\ redisUp' = FALSE
    /\ UNCHANGED <<dirs, files, directory, registry, tasks, done, received>>

RedisRecovers ==
    /\ ~redisUp /\ redisUp' = TRUE
    /\ UNCHANGED <<dirs, files, directory, registry, tasks, done, received>>

\* ------------------------------------------------------------------- spec

\* The bucket and object endpoints, for requests that auth_middleware lets
\* through, and clients giving up on an upload.
Handlers ==
    \/ \E n \in Nodes, b \in BucketNames, h \in BOOLEAN, o \in OrigNames, p \in Payloads :
           upload_create_dir(n, b, h, o, p)
    \/ \E t \in BagToSet(tasks), ts \in Times, r \in Rands : upload_write(t, ts, r)
    \/ \E t \in BagToSet(tasks) : upload_record(t)
    \/ \E t \in BagToSet(tasks) : upload_abort(t)
    \/ \E n \in Nodes, b \in BucketNames, f \in FileNames : download_check(n, b, f)
    \/ \E t \in BagToSet(tasks) : download_open(t)
    \/ \E t \in BagToSet(tasks) : download_lookup(t)
    \/ \E n \in Nodes, b \in BucketNames, f \in FileNames : delete_check(n, b, f)
    \/ \E t \in BagToSet(tasks) : delete_remove(t)
    \/ \E t \in BagToSet(tasks) : delete_forget(t)
    \/ \E n \in Nodes, b \in BucketNames, f \in FileNames : info_stat(n, b, f)
    \/ \E t \in BagToSet(tasks) : info_locate(t)
    \/ \E n \in Nodes, b \in BucketNames : delete_bucket_check(n, b)
    \/ \E t \in BagToSet(tasks) : delete_bucket_remove(t)
    \/ \E n \in Nodes, b \in CreateNames : create_bucket_check(n, b)
    \/ \E t \in BagToSet(tasks) : create_bucket_mkdir(t)
    \/ \E n \in Nodes : list_buckets(n)
    \/ \E n \in Nodes, b \in BucketNames : list_files(n, b)

\* The bucket and object endpoints, with Redis failing and recovering.
Next == Handlers \/ RedisFails \/ RedisRecovers

Spec == Init /\ [][Next]_vars

\* The bucket and object endpoints with Redis reachable throughout.
SpecReachable == Init /\ [][Handlers]_vars

\* The node registry and health endpoints, with Redis failing and recovering.
NextNodes ==
    \/ \E n \in Nodes, p \in RegisterPayloads : register_node_endpoint(n, p)
    \/ \E n \in Nodes : list_nodes_endpoint(n)
    \/ \E n \in Nodes : health(n)
    \/ \E n \in Nodes : health_status(n)
    \/ RedisFails
    \/ RedisRecovers

SpecNodes == Init /\ [][NextNodes]_vars

\* A Redis outage: registrations and listings before and during it, the
\* bucket and object endpoints during it.
NextOutage ==
    \/ \E n \in Nodes, p \in RegisterPayloads : register_node_endpoint(n, p)
    \/ \E n \in Nodes : list_nodes_endpoint(n)
    \/ RedisFails
    \/ ~redisUp /\ Handlers

SpecOutage == Init /\ [][NextOutage]_vars

\* ------------------------------------------------------------------- auth

\* The API_KEY variable of each node (set to the empty text on A) and the
\* x-api-key header of a request: absent (the empty sequence) or one text. A
\* header that is no visible ASCII reads as absent (to_str().ok()).
Secret == <<"s3cret">>
ApiKeyEnv(n) == IF n = "A" THEN <<NoText>> ELSE <<Secret>>
Headers == {<<>>, <<Secret>>, <<<<"guess">>>>}

\* env::var("API_KEY").ok().filter(|v| !v.is_empty())
api_key(n) == IF ApiKeyEnv(n) # <<>> /\ ApiKeyEnv(n)[1] # NoText THEN ApiKeyEnv(n) ELSE <<>>

\* Mutant: any x-api-key header passes.
AuthorizedByAnyHeader(n, header) ==
    (api_key(n) # <<>> /\ api_key(n)[1] # NoText) => header # <<>>

\* Some(expected), non-empty: Some(got) if got == expected, else refused.
Authorized(n, header) ==
    (api_key(n) # <<>> /\ api_key(n)[1] # NoText)
        => (header # <<>> /\ header[1] = api_key(n)[1])

\* The handlers behind the authed router, as a request arrives at node n.
Arrivals(n) ==
    \/ \E b \in BucketNames, h \in BOOLEAN, o \in OrigNames, p \in Payloads :
           upload_create_dir(n, b, h, o, p)
    \/ \E b \in BucketNames, f \in FileNames : download_check(n, b, f)
    \/ \E b \in BucketNames, f \in FileNames : delete_check(n, b, f)
    \/ \E b \in BucketNames, f \in FileNames : info_stat(n, b, f)
    \/ \E b \in BucketNames : delete_bucket_check(n, b)
    \/ \E b \in CreateNames : create_bucket_check(n, b)
    \/ list_buckets(n)
    \/ \E b \in BucketNames : list_files(n, b)
    \/ \E p \in RegisterPayloads : register_node_endpoint(n, p)
    \/ list_nodes_endpoint(n)

\* The later steps of the handlers.
Steps ==
    \/ \E t \in BagToSet(tasks), ts \in Times, r \in Rands : upload_write(t, ts, r)
    \/ \E t \in BagToSet(tasks) : upload_record(t)
    \/ \E t \in BagToSet(tasks) : download_open(t)
    \/ \E t \in BagToSet(tasks) : download_lookup(t)
    \/ \E t \in BagToSet(tasks) : delete_remove(t)
    \/ \E t \in BagToSet(tasks) : delete_forget(t)
    \/ \E t \in BagToSet(tasks) : info_locate(t)
    \/ \E t \in BagToSet(tasks) : delete_bucket_remove(t)
    \/ \E t \in BagToSet(tasks) : create_bucket_mkdir(t)

\* auth_middleware in front of a route of the authed router: 403 FORBIDDEN,
\* or next.run(req).
auth_middleware(n, header) ==
    IF Authorized(n, header)
    THEN Arrivals(n)
    ELSE /\ CanReceive
         /\ Receive(Respond(NewRequest(n, "api", NoText, NoText), 403))
         /\ UNCHANGED <<dirs, files, directory, registry, redisUp>>

\* build_router: the /api routes behind auth_middleware, the health routes
\* in front of it; Redis reachable.
NextAuth ==
    \/ \E n \in Nodes, header \in Headers : auth_middleware(n, header)
    \/ Steps
    \/ \E n \in Nodes : health(n)
    \/ \E n \in Nodes : health_status(n)

SpecAuth == Init /\ [][NextAuth]_vars

\* ----------------------------------------------------------- shared Redis

\* Texts that other clients of the same Redis put into the set "nodes": one
\* that is no JSON, and node A's default descriptor spelled with spaces
\* (another text, the same JSON value).
ForeignTexts ==
    {[raw |-> <<"not json">>],
     [json |-> NodeJson(ServerId("A"), PublicHost("A"), port_from_env("A")),
      spaced |-> TRUE]}

\* SADD nodes <text> by another client.
foreign_sadd(text) ==
    /\ redisUp
    /\ text \notin registry
    /\ registry' = registry \cup {text}
    /\ UNCHANGED <<dirs, files, directory, redisUp, tasks, done, received>>

\* The registry and health endpoints on a Redis that other clients write to.
NextShared ==
    \/ NextNodes
    \/ \E text \in ForeignTexts : foreign_sadd(text)

SpecShared == Init /\ [][NextShared]_vars

\* ------------------------------------------------------------------ names

\* Path and multipart texts as the router passes them on: AxPath(bucket) and
\* field.file_name() are not checked, so a bucket or an original name may
\* hold any character, ':' included.
PathBuckets == BucketNames \cup {<<"b", ":", "1", "-", "0", "-", "f">>}
PathOrigNames == {<<"g">>, <<"f", ":", "1", "-", "0", "-", "g">>}
PathFileNames == {UniqueName(ts, r, o) : ts \in Times, r \in Rands, o \in PathOrigNames}

\* Uploads, deletes and bucket creations with such names; Redis reachable.
NextNames ==
    \/ \E n \in Nodes, b \in PathBuckets, o \in PathOrigNames :
           upload_create_dir(n, b, TRUE, o, <<1>>)
    \/ \E t \in BagToSet(tasks), ts \in Times, r \in Rands : upload_write(t, ts, r)
    \/ \E t \in BagToSet(tasks) : upload_record(t)
    \/ \E n \in Nodes, b \in PathBuckets, f \in PathFileNames : delete_check(n, b, f)
    \/ \E t \in BagToSet(tasks) : delete_remove(t)
    \/ \E t \in BagToSet(tasks) : delete_forget(t)
    \/ \E n \in Nodes, b \in PathBuckets : create_bucket_check(n, b)
    \/ \E t \in BagToSet(tasks) : create_bucket_mkdir(t)

SpecNames == Init /\ [][NextNames]_vars

\* ================================================================= claims

\* The step ends handler task t: done' is the response to t's request.
Answers(t) == tasks' = tasks (-) SetToBag({t}) /\ done'.pc = "done"

\* What the client sees of a response.
Response(q) ==
    [status |-> q.status, name |-> q.name, target |-> q.target, body |-> q.body,
     location |-> q.location, listing |-> q.listing, redis |-> q.redis]

\* The directory holds, for (bucket, filename), the pointer an upload on node
\* n records.
PointsTo(n, bucket, filename) ==
    /\ DirKey(bucket, filename) \in DOMAIN directory
    /\ directory[DirKey(bucket, filename)] = ToJsonText(SelfDescriptor(n))

\* The redirect to node n's own endpoint for (bucket, filename).
RedirectTo(n, bucket, filename) ==
    RedirectTarget(PublicHost(n), port_from_env(n), bucket, filename)

\* C1. Cross-node redirect: when the directory holds the pointer node a
\* recorded at its upload of (bucket, key), a download of (bucket, key) that
\* missed on another node's disk and reaches the directory is answered with a
\* redirect to http://{a.host}:{a.port}/api/buckets/{bucket}/files/{key},
\* never with NotFound.
C1_CrossNodeRedirect ==
    [][\A t \in At("download", "lookup"), a \in Nodes :
          (a # t.node /\ Answers(t) /\ redisUp /\ PointsTo(a, t.bucket, t.filename))
          => /\ done'.status = 303
             /\ done'.target = RedirectTo(a, t.bucket, t.filename)]_vars

\* Node B has answered a download of an object that node A holds and B does
\* not with a redirect to A.
C1_Witness ==
    /\ done.op = "download" /\ done.node = "B" /\ done.status = 303
    /\ done.target = RedirectTo("A", done.bucket, done.filename)
    /\ FileExists("A", done.bucket, done.filename)
    /\ ~FileExists("B", done.bucket, done.filename)
    /\ PointsTo("A", done.bucket, done.filename)

\* C2. A download that missed on the local disk is answered NotFound when the
\* directory holds no pointer for (bucket, key) and when Redis is
\* unreachable: never a 5xx, and the same response in both cases.
C2_MissIsNotFound ==
    [][\A t \in At("download", "lookup") :
          (Answers(t) /\ (~redisUp \/ DirKey(t.bucket, t.filename) \notin DOMAIN directory))
          => Response(done') = Response(Respond(t, 404))]_vars

\* A download has been answered NotFound with Redis down although the
\* directory holds a pointer for its key.
C2_Witness ==
    /\ done.op = "download" /\ done.status = 404 /\ done.redisCall = "err"
    /\ ~redisUp
    /\ DirKey(done.bucket, done.filename) \in DOMAIN directory

\* C3. A download whose file is on the node's disk never asks the directory:
\* it goes on to open the file, and while the file is there it is answered
\* with the file's bytes, whatever the directory holds and whether or not
\* Redis is reachable.
C3_LocalHit ==
    /\ [](\A t \in BagToSet(tasks) :
             (t.op = "download" /\ t.local) => (t.pc = "open" /\ t.lookups = 0))
    /\ []((done.op = "download" /\ done.local) => done.lookups = 0)
    /\ [][\A t \in At("download", "open") :
             (Answers(t) /\ FileExists(t.node, t.bucket, t.filename))
             => /\ done'.status = 200
                /\ done'.body = files[t.node][<<t.bucket, t.filename>>]
                /\ done'.target = NoText
                /\ done'.lookups = 0]_vars

\* A download has been served from node B's disk with Redis down and the
\* directory pointing at node A for the same key.
C3_Witness ==
    /\ done.op = "download" /\ done.node = "B" /\ done.status = 200
    /\ done.local /\ done.body = <<1>>
    /\ ~redisUp
    /\ PointsTo("A", done.bucket, done.filename)

\* C4. A stat (file info) request for an object that is not on the node's
\* disk, while the directory holds a pointer for (bucket, key), is answered
\* with a redirect to the owning node, as a read is.
C4_StatRedirects ==
    [][\A n \in Nodes, b \in BucketNames, f \in FileNames, a \in Nodes :
          (info_stat(n, b, f) /\ ~FileExists(n, b, f) /\ redisUp /\ PointsTo(a, b, f))
          => /\ done'.status = 303
             /\ done'.target = RedirectTo(a, b, f)]_vars

\* C5. Self-redirect on a stale pointer: a download that missed on the disk of
\* node n while the directory's pointer for its key names n itself is answered
\* with a redirect to n's own endpoint, not with NotFound.
C5_SelfRedirect ==
    [][\A t \in At("download", "lookup") :
          (Answers(t) /\ redisUp /\ PointsTo(t.node, t.bucket, t.filename))
          => /\ done'.status = 303
             /\ done'.target = RedirectTo(t.node, t.bucket, t.filename)]_vars

\* A node has redirected a download to itself between the file removal and
\* the pointer removal of a delete of the same object on that node.
C5_Witness ==
    /\ done.op = "download" /\ done.status = 303
    /\ done.target = RedirectTo(done.node, done.bucket, done.filename)
    /\ ~FileExists(done.node, done.bucket, done.filename)
    /\ PointsTo(done.node, done.bucket, done.filename)
    /\ \E t \in At("delete", "forget") :
           t.node = done.node /\ t.bucket = done.bucket /\ t.filename = done.filename

\* C6. Local operations do not depend on the directory's health: the step of
\* an upload that records the pointer and the step of a delete that forgets
\* it answer 200 (the upload with its generated key) and leave every node's
\* disk as it is, whether Redis answers or not.
C6_DirectoryIndependence ==
    [][\A t \in At("upload", "record") \cup At("delete", "forget") :
          Answers(t)
          => /\ Response(done') = Response(Respond(t, 200))
             /\ files' = files
             /\ dirs' = dirs]_vars

\* An upload has been answered 200 with its file on disk although Redis was
\* down and no pointer was recorded.
C6_Witness ==
    /\ done.op = "upload" /\ done.status = 200 /\ done.redisCall = "err"
    /\ FileExists(done.node, done.bucket, done.name)
    /\ DirKey(done.bucket, done.name) \notin DOMAIN directory

\* C7. Pointer lifetime, with Redis reachable throughout: once every request
\* has been answered, the directory holds a pointer for (bucket, key) naming
\* node n only if the file is on n's disk.
C7_PointerLifetime ==
    tasks = EmptyBag
    => \A n \in Nodes, b \in BucketNames, f \in FileNames :
           PointsTo(n, b, f) => FileExists(n, b, f)

\* C8. Record on write: the step that ends an upload with Redis reachable
\* leaves the directory mapping "{bucket}:{key}", key being the generated key
\* returned to the client, to a descriptor with the uploading node's
\* advertised host and listen port.
C8_RecordOnWrite ==
    [][\A t \in At("upload", "record") :
          (Answers(t) /\ redisUp)
          => /\ done'.status = 200
             /\ done'.name = t.name
             /\ DirKey(t.bucket, done'.name) \in DOMAIN directory'
             /\ IsJsonText(directory'[DirKey(t.bucket, done'.name)])
             /\ FromJsonText(directory'[DirKey(t.bucket, done'.name)]).host
                    = PublicHost(t.node)
             /\ FromJsonText(directory'[DirKey(t.bucket, done'.name)]).port
                    = port_from_env(t.node)]_vars

\* Node B has answered an upload and the directory names B's host and port
\* for the generated key.
C8_Witness ==
    /\ done.op = "upload" /\ done.node = "B" /\ done.status = 200 /\ done.redisCall = "ok"
    /\ DirKey(done.bucket, done.name) \in DOMAIN directory
    /\ FromJsonText(directory[DirKey(done.bucket, done.name)]).host = <<"host-b">>
    /\ FromJsonText(directory[DirKey(done.bucket, done.name)]).port = 3002

\* C9. Forget on delete: the step that ends an object delete answers 200;
\* with Redis reachable it leaves no pointer for (bucket, key), and with
\* Redis unreachable it leaves the directory as it is (a pointer stays).
C9_ForgetOnDelete ==
    [][\A t \in At("delete", "forget") :
          Answers(t)
          => /\ done'.status = 200
             /\ redisUp => DirKey(t.bucket, t.filename) \notin DOMAIN directory'
             /\ ~redisUp => directory' = directory]_vars

\* A delete has been answered 200 with Redis down: the file is gone and its
\* pointer still names the node.
C9_Witness ==
    /\ done.op = "delete" /\ done.status = 200 /\ done.redisCall = "err"
    /\ ~FileExists(done.node, done.bucket, done.filename)
    /\ PointsTo(done.node, done.bucket, done.filename)

\* The step answers a request: done' is its response.
Answered ==
    \/ \E t \in BagToSet(tasks) : Answers(t)
    \/ received' = received + 1 /\ tasks' = tasks

\* C10. Redis being unreachable is never visible to the client: a response
\* produced with Redis unreachable equals the response the same node gave to
\* the same request, with the same view of its disk, while Redis was
\* reachable and held no entry for it.
C10_UnavailabilityHidden ==
    [][(/\ Answered
        /\ done.op = done'.op /\ done.node = done'.node
        /\ done.bucket = done'.bucket /\ done.filename = done'.filename
        /\ done.local = done'.local
        /\ done.redisCall = "ok" /\ ~done.found
        /\ done'.redisCall = "err")
       => [Response(done') EXCEPT !.name = NoText, !.body = <<>>]
              = [Response(done) EXCEPT !.name = NoText, !.body = <<>>]]_vars

\* C11. createBucket succeeds exactly once: a createBucket call for a valid
\* name answered right after another createBucket call for the same name on
\* the same node was answered 200 (no bucket delete answered in between; the
\* two calls may have been in flight together) is answered Conflict (409).
C11_CreateOnce ==
    [][\A t \in At("create_bucket", "mkdir") :
          (/\ Answers(t)
           /\ done.op = "create_bucket" /\ done.status = 200
           /\ done.node = t.node /\ done.bucket = t.bucket)
          => done'.status = 409]_vars

\* C12. Upload never overwrites: an upload answered 200 right after another
\* upload to the same bucket on the same node was answered 200 (sequential or
\* in flight together, same original name and same millisecond or not) has a
\* generated key different from the other upload's key.
C12_DistinctKeys ==
    [][\A t \in At("upload", "record") :
          (/\ Answers(t)
           /\ done.op = "upload" /\ done.status = 200
           /\ done.node = t.node /\ done.bucket = t.bucket)
          => done'.name # done.name]_vars

\* The claim's invalid names: empty, a character other than a lowercase ascii
\* letter, a digit or '-', or a hyphen at either end.
InvalidName(name) ==
    \/ name = <<>>
    \/ \E k \in 1..Len(name) : name[k] \notin NameChars
    \/ name[1] = "-"
    \/ name[Len(name)] = "-"

\* C13. createBucket with an invalid name (empty, a disallowed character, a
\* leading or trailing hyphen) is answered InvalidInput (400) at once, and
\* no node's set of buckets changes.
C13_InvalidName ==
    [][\A n \in Nodes, name \in CreateNames :
          (received' # received /\ InvalidName(name) /\ create_bucket_check(n, name))
          => /\ done'.op = "create_bucket" /\ done'.bucket = name
             /\ done'.status = 400
             /\ tasks' = tasks
             /\ dirs' = dirs]_vars

\* createBucket "b-" has been answered 400 on a node that holds bucket "b"
\* and no other.
C13_Witness ==
    /\ done.op = "create_bucket" /\ done.bucket = <<"b", "-">> /\ done.status = 400
    /\ dirs[done.node] = {<<"b">>}

\* C14. Deleting an object whose file is not on the node's disk, or a bucket
\* whose directory is not there, when the request arrives is answered
\* NotFound (404) at once, and no node's buckets or objects change.
C14_DeleteMissing ==
    [][/\ \A n \in Nodes, b \in BucketNames, f \in FileNames :
             (~FileExists(n, b, f) /\ received' # received /\ delete_check(n, b, f))
             => /\ done'.op = "delete" /\ done'.status = 404
                /\ tasks' = tasks
                /\ files' = files /\ dirs' = dirs
       /\ \A n \in Nodes, b \in BucketNames :
             (~BucketExists(n, b) /\ received' # received /\ delete_bucket_check(n, b))
             => /\ done'.op = "delete_bucket" /\ done'.status = 404
                /\ tasks' = tasks
                /\ files' = files /\ dirs' = dirs]_vars

\* A bucket delete has been answered 404 on a node without the bucket while
\* the other node holds the bucket with an object in it.
C14_Witness ==
    /\ done.op = "delete_bucket" /\ done.status = 404
    /\ ~BucketExists(done.node, done.bucket)
    /\ \E n \in Nodes, f \in FileNames : FileExists(n, done.bucket, f)

\* C15. Registration is idempotent: registering, on any node, a descriptor
\* whose id, host and port equal a registered one's leaves the registry's
\* members, and so the listing of nodes, as they are, and is answered 200.
C15_RegisterIdempotent ==
    [][\A n \in Nodes, p \in RegisterPayloads :
          (register_node_endpoint(n, p) /\ NodeText(n, p) \in registry)
          => /\ registry' = registry
             /\ Listing(registry') = Listing(registry)
             /\ done'.op = "register" /\ done'.status = 200]_vars

\* A descriptor has been registered a second time with Redis reachable while
\* the registry holds another descriptor as well.
C15_Witness ==
    /\ done.op = "register" /\ done.status = 200
    /\ done.redisCall = "ok" /\ done.found
    /\ Cardinality(registry) = 2

Refused(n) ==
    /\ received' = received + 1
    /\ done'.node = n /\ done'.status = 403
    /\ tasks' = tasks
    /\ dirs' = dirs /\ files' = files
    /\ directory' = directory /\ registry' = registry

\* The claim's condition: node n has no secret, or an empty one, in its
\* configuration, or the header h carries the configured secret.
Permitted(n, h) ==
    \/ ApiKeyEnv(n) = <<>>
    \/ ApiKeyEnv(n) = <<NoText>>
    \/ h = ApiKeyEnv(n)

\* C17. Auth gate, every route: a request arriving at node n with the
\* x-api-key header h reaches a handler if and only if n has no non-empty
\* secret configured or h equals the secret; otherwise it is refused before
\* any handler runs and no store changes.
C17_AuthGate ==
    [][\A n \in Nodes, h \in Headers :
          IF Permitted(n, h)
          THEN Refused(n) => ~(auth_middleware(n, h) \/ health(n) \/ health_status(n))
          ELSE (/\ received' # received
                /\ (auth_middleware(n, h) \/ health(n) \/ health_status(n)))
               => Refused(n)]_vars

\* C17, the routes under /api: a request for a bucket, object or node route
\* arriving at node n with the x-api-key header h reaches its handler if and
\* only if n has no non-empty secret configured or h equals the secret;
\* otherwise it is refused with 403 before any handler runs and no store
\* changes: a refusal never answers a request with a permitted header, and a
\* request with another header is always refused. (GET /health and GET
\* /health/status are answered without the gate.)
C17_AuthGateApi ==
    [][\A n \in Nodes, h \in Headers :
          IF Permitted(n, h)
          THEN Refused(n) => ~auth_middleware(n, h)
          ELSE (received' # received /\ auth_middleware(n, h)) => Refused(n)]_vars

\* Node B, which holds an object uploaded with the secret, has refused a
\* request.
C17_Witness ==
    /\ done.node = "B" /\ done.op = "api" /\ done.status = 403
    /\ \E b \in BucketNames, f \in FileNames : FileExists("B", b, f)

\* C18. Round trip: a download, on the same node, of the key that the upload
\* answered last (200) returned, the file being on disk when it is opened
\* (no delete removed it), is answered 200 with the uploaded bytes, the empty
\* payload included.
C18_RoundTrip ==
    [][\A t \in At("download", "open") :
          (/\ Answers(t)
           /\ done.op = "upload" /\ done.status = 200
           /\ done.node = t.node /\ done.bucket = t.bucket /\ done.name = t.filename
           /\ FileExists(t.node, t.bucket, t.filename))
          => /\ done'.status = 200
             /\ done'.body = done.payload]_vars

\* C19. Publish after persist: (1) a step after which an upload is about to
\* record its pointer is a step that leaves the upload's complete bytes in
\* the node's file for the generated key; (2) a pointer is written only by
\* such an upload, for its own key; (3) an upload that is answered with an
\* error or is aborted before its write leaves the directory as it is.
C19_PublishAfterPersist ==
    [][/\ \A t \in At("upload", "record")' \ At("upload", "record") :
             /\ FileExists(t.node, t.bucket, t.name)'
             /\ files'[t.node][<<t.bucket, t.name>>] = t.payload
       /\ \A key \in DOMAIN directory' :
             (key \notin DOMAIN directory \/ directory'[key] # directory[key])
             => \E t \in At("upload", "record") :
                    upload_record(t) /\ key = DirKey(t.bucket, t.name)
       /\ \A t \in At("upload", "write") :
             ((Answers(t) /\ done'.status # 200) \/ upload_abort(t))
             => directory' = directory]_vars

\* An upload has been aborted before its write and left no pointer, while
\* the directory holds the pointer of an upload whose file is on disk.
C19_Witness ==
    /\ done.op = "upload" /\ done.pc = "aborted" /\ done.name = NoText
    /\ \E n \in Nodes, b \in BucketNames, f \in FileNames :
           PointsTo(n, b, f) /\ FileExists(n, b, f)

\* C20. Resolver state machine: a download in flight is past its one local
\* check, either about to serve the file (no lookup made) or about to make
\* its one directory lookup; an answered download ended in exactly one of
\* Local Hit (200 after the local check, no lookup, no redirect), Not Found
\* (404 after one lookup, no redirect) and Redirected (303 with one target
\* after one lookup).
C20_ResolverStates ==
    /\ \A t \in BagToSet(tasks) :
          t.op = "download"
          => \/ t.pc = "open" /\ t.local /\ t.lookups = 0
             \/ t.pc = "lookup" /\ ~t.local /\ t.lookups = 0
    /\ (done.op = "download" /\ done.pc = "done")
          => \/ done.status = 200 /\ done.local /\ done.lookups = 0
                /\ done.target = NoText
             \/ done.status = 404 /\ ~done.local /\ done.lookups = 1
                /\ done.target = NoText
             \/ done.status = 303 /\ ~done.local /\ done.lookups = 1
                /\ done.target # NoText /\ done.body = <<>>

\* C21. Bucket-name invariant: in every reachable state every bucket in a
\* node's local store has a valid name: non-empty, only lowercase ascii
\* letters, digits and '-', no '-' at either end.
C21_BucketNames ==
    \A n \in Nodes : \A b \in dirs[n] : b # <<>> /\ ValidBucketName(b)

\* C22. Record is an unconditional overwrite: when an upload records its
\* pointer, with Redis reachable, for a directory key that holds another
\* owner's descriptor, a lookup of the key made after the step returns the
\* descriptor of this upload's node, and no other key changes.
C22_LastWriterWins ==
    [][\A t \in At("upload", "record") :
          (/\ Answers(t) /\ redisUp
           /\ DirKey(t.bucket, t.name) \in DOMAIN directory
           /\ directory[DirKey(t.bucket, t.name)] # ToJsonText(SelfDescriptor(t.node)))
          => /\ get_key(DirKey(t.bucket, t.name))' = <<ToJsonText(SelfDescriptor(t.node))>>
             /\ \A k \in DOMAIN directory \ {DirKey(t.bucket, t.name)} :
                   k \in DOMAIN directory' /\ directory'[k] = directory[k]]_vars

\* Both nodes hold a file under the same key, no upload is in flight, and
\* the pointer names node B, whose upload was answered last.
C22_Witness ==
    /\ done.op = "upload" /\ done.node = "B" /\ done.status = 200
    /\ done.redisCall = "ok"
    /\ FileExists("A", done.bucket, done.name)
    /\ FileExists("B", done.bucket, done.name)
    /\ PointsTo("B", done.bucket, done.name)
    /\ At("upload", "write") = {} /\ At("upload", "record") = {}

\* C23. Registry membership is by full descriptor value and the registry
\* never shrinks: no step removes a member; a registration with Redis
\* reachable leaves its descriptor a member, and when every member differs
\* from it in id, host or port (the same id with another port included) the
\* registry has one member more.
C23_RegistryByValue ==
    [][/\ registry \subseteq registry'
       /\ \A n \in Nodes, p \in RegisterPayloads :
             (received' # received /\ redisUp /\ register_node_endpoint(n, p))
             => /\ NodeText(n, p) \in registry'
                /\ (\A m \in registry :
                       \/ FromJsonText(m).id # FromJsonText(NodeText(n, p)).id
                       \/ FromJsonText(m).host # FromJsonText(NodeText(n, p)).host
                       \/ FromJsonText(m).port # FromJsonText(NodeText(n, p)).port)
                   => Cardinality(registry') = Cardinality(registry) + 1]_vars

\* The registry holds two members with the same id and host and different
\* ports.
C23_Witness ==
    \E m1 \in registry, m2 \in registry :
        /\ FromJsonText(m1).id = FromJsonText(m2).id
        /\ FromJsonText(m1).host = FromJsonText(m2).host
        /\ FromJsonText(m1).port # FromJsonText(m2).port

\* C24. Listing nodes, with Redis reachable, is answered 200 with exactly
\* the members that parse, one result per such member (two members that
\* parse to the same value give two results); a member that does not parse
\* is left out and the others are still listed.
C24_ListingSkipsUnparsable ==
    [][\A n \in Nodes :
          (received' # received /\ redisUp /\ list_nodes_endpoint(n))
          => /\ done'.op = "list_nodes" /\ done'.status = 200
             /\ \A m \in registry :
                   IsJsonText(m)
                   => \E e \in done'.listing :
                         /\ e.node = FromJsonText(m)
                         /\ e.copies = Cardinality({t \in registry :
                                IsJsonText(t) /\ FromJsonText(t) = FromJsonText(m)})
             /\ \A e \in done'.listing :
                   \E m \in registry : IsJsonText(m) /\ FromJsonText(m) = e.node]_vars

\* A listing has been answered with one value twice (node A's descriptor,
\* registered by A and stored by another client in another spelling) while
\* the registry also holds a member that is no JSON.
C24_Witness ==
    /\ done.op = "list_nodes" /\ done.status = 200 /\ done.redisCall = "ok"
    /\ \E m \in registry : ~IsJsonText(m)
    /\ \E e \in done.listing : e.copies = 2

\* C25. One-hop resolution: while Redis is reachable, the directory names
\* node a for (bucket, key) and the file is on a's disk, a download of the
\* key that arrives at any node is served from disk only on a; elsewhere it
\* is redirected, after its lookup, to a's endpoint; and the download the
\* client then makes on a is answered 200 with the file's bytes and no
\* further lookup or redirect.
C25_OneHop ==
    [][\A a \in Nodes, b \in BucketNames, f \in FileNames :
          (redisUp /\ PointsTo(a, b, f) /\ FileExists(a, b, f))
          => /\ \A t \in At("download", "open")' :
                   (/\ received' # received
                    /\ t.bucket = b /\ t.filename = f
                    /\ CopiesIn(t, tasks') > CopiesIn(t, tasks))
                   => t.node = a
             /\ \A t \in At("download", "lookup") :
                   (Answers(t) /\ t.bucket = b /\ t.filename = f)
                   => /\ done'.status = 303
                      /\ done'.target = RedirectTo(a, b, f)
             /\ \A t \in At("download", "open") :
                   (Answers(t) /\ t.node = a /\ t.bucket = b /\ t.filename = f)
                   => /\ done'.status = 200
                      /\ done'.body = files[a][<<b, f>>]
                      /\ done'.lookups = 0 /\ done'.target = NoText]_vars

\* C26: a delete arriving at a node that has no file for (bucket, key) is
\* answered 404 there, with no redirect, and leaves the directory as it was;
\* and the pointer of an object that is on some disk leaves the directory only
\* in the last step of a delete on a node that held that object when the
\* delete arrived.
C26_OnlyHolderForgets ==
    [][/\ \A n \in Nodes, b \in PathBuckets, f \in FileNames \cup PathFileNames :
              (received' # received /\ ~FileExists(n, b, f) /\ delete_check(n, b, f))
              => /\ done'.op = "delete" /\ done'.node = n
                 /\ done'.status = 404 /\ done'.target = NoText
                 /\ tasks' = tasks
                 /\ directory' = directory
       /\ \A b \in PathBuckets, f \in FileNames \cup PathFileNames :
              (/\ DirKey(b, f) \in DOMAIN directory
               /\ DirKey(b, f) \notin DOMAIN directory'
               /\ \E n \in Nodes : FileExists(n, b, f))
              => \E t \in At("delete", "forget") :
                     /\ Answers(t) /\ t.local
                     /\ \/ t.bucket = b /\ t.filename = f
                        \/ FileExists(t.node, b, f)]_vars

\* C27: two different (bucket, key) pairs that are on disk, on one node or on
\* two, never have the same directory key bucket + ":" + key.
C27_DirKeyInjective ==
    \A n1 \in Nodes, n2 \in Nodes :
        \A p1 \in DOMAIN files[n1], p2 \in DOMAIN files[n2] :
            p1 # p2 => DirKey(p1[1], p1[2]) # DirKey(p2[1], p2[2])

====
